---- MODULE Spec2Model ----
(***************************************************************************)
(* Model of the PXN CB1 HID monitor: HIDDeviceManager (connection state,   *)
(* debounce timer, edge detection), ControlConfigParser (rolling snapshot, *)
(* change detection, catalog resolution) and the ActionRegistry routing.   *)
(***************************************************************************)
EXTENDS Integers, Sequences, FiniteSets, TLC

(* ------------------------------------------------------------------ *)
(* Bounds of the model                                                *)
(* ------------------------------------------------------------------ *)
\* number of reports delivered in one behaviour
MaxReports == 4
\* processButtonStates calls that may be suspended on a subprocess at once
MaxCalls == 2
\* device handles that may be open (handlers attached) at the same time
MaxHandles == 1
\* milliseconds by which one Tick advances the clock
TickStep == 50
\* number of reports delivered in one behaviour of SpecBurst
MaxBurstReports == 6
\* number of reports delivered in one behaviour of SpecDispatch
MaxDispatchReports == 2
\* number of reports delivered in one behaviour of SpecActions
MaxActionReports == 1
\* pieces an action string is put together from
MaxPieces == 3
\* length of the reports detectChanges is applied to
MaxLen == 3
\* length of the token lists changesMatch is applied to
MaxTokens == 3
\* entries of a generated catalog
MaxEntries == 2
\* parsers registered on top of the default ones
MaxRegistered == 2
\* reports delivered while the debug methods of the parser are called
MaxDebugReports == 3
\* reports delivered in one behaviour of SpecLive
MaxLiveReports == 2
\* handles a manager may hold open at once when connect() is called freely
MaxOpens == 2
\* reports delivered to a manager driven by the HIDMonitor
MaxMonitorReports == 1

(* ------------------------------------------------------------------ *)
(* Program constants                                                  *)
(* ------------------------------------------------------------------ *)
\* polling.debounce of DEFAULT_CONFIG, in milliseconds
Debounce == 50
\* length of a control report
ReportLen == 6
\* number of logical button slots of a parsed event
NumSlots == 8

(* ------------------------------------------------------------------ *)
(* Generic helpers                                                    *)
(* ------------------------------------------------------------------ *)
Min(a, b) == IF a < b THEN a ELSE b

Max(a, b) == IF a > b THEN a ELSE b

\* array[i] || false, with the zero-based index of the code
At(arr, i) == IF i + 1 <= Len(arr) THEN arr[i + 1] ELSE FALSE

\* new Array(8).fill(false)
AllFalse == [k \in 1..NumSlots |-> FALSE]

(* ------------------------------------------------------------------ *)
(* Strings as character sequences                                     *)
(* ------------------------------------------------------------------ *)
MacroPrefix == <<"m", "a", "c", "r", "o", ":">>

\* String.prototype.startsWith
StartsWith(s, p) == Len(s) >= Len(p) /\ SubSeq(s, 1, Len(p)) = p

\* String.prototype.includes for a single character
Includes(s, ch) == \E k \in 1..Len(s) : s[k] = ch

\* String.prototype.substring(n)
Substring(s, n) == SubSeq(s, n + 1, Len(s))

RECURSIVE SplitFrom(_, _, _)
\* String.prototype.split on a one-character separator: cur is the piece
\* being collected while scanning s
SplitFrom(s, sep, cur) ==
  IF s = <<>> THEN <<cur>>
  ELSE IF Head(s) = sep THEN <<cur>> \o SplitFrom(Tail(s), sep, <<>>)
  ELSE SplitFrom(Tail(s), sep, Append(cur, Head(s)))

Split(s, sep) == SplitFrom(s, sep, <<>>)

Digits == <<"0", "1", "2", "3", "4", "5", "6", "7", "8", "9">>

DigitValue(ch) == (CHOOSE d \in 1..10 : Digits[d] = ch) - 1

IsDigit(ch) == \E d \in 1..10 : Digits[d] = ch

RECURSIVE ParseDigits(_, _)
ParseDigits(s, acc) ==
  IF s = <<>> \/ ~IsDigit(Head(s)) THEN acc
  ELSE ParseDigits(Tail(s), 10 * acc + DigitValue(Head(s)))

\* parseInt of an object key: the leading decimal digits, NaN (modelled as -1,
\* which fails every range test just as NaN does) when there is none
ParseInt(s) ==
  IF s = <<>> \/ ~IsDigit(Head(s)) THEN -1 ELSE ParseDigits(s, 0)

(* ------------------------------------------------------------------ *)
(* ControlConfigParser                                                *)
(* ------------------------------------------------------------------ *)
\* private previousState: number[] = [0, 0, 0, 0, 0, 0]
ZeroState == <<0, 0, 0, 0, 0, 0>>

\* A delta token `byte{i+1}:{old}->{new}` is the triple <<i+1, old, new>>.
RECURSIVE DetectFrom(_, _, _)
DetectFrom(previous, current, i) ==
  IF i >= Min(Len(previous), Len(current)) THEN <<>>
  ELSE (IF previous[i + 1] # current[i + 1]
          THEN <<<<i + 1, previous[i + 1], current[i + 1]>>>>
          ELSE <<>>)
       \o DetectFrom(previous, current, i + 1)

\* detection that numbers the positions from 0
detectChangesZeroBased(previous, current) ==
  [k \in 1..Len(DetectFrom(previous, current, 0)) |->
     <<DetectFrom(previous, current, 0)[k][1] - 1,
       DetectFrom(previous, current, 0)[k][2],
       DetectFrom(previous, current, 0)[k][3]>>]

\* detection that takes its two arguments the other way round
detectChangesSwapped(previous, current) == DetectFrom(current, previous, 0)

detectChanges(previous, current) == DetectFrom(previous, current, 0)

RECURSIVE Dec(_)
\* a number as a template literal prints it: in decimal
Dec(n) ==
  IF n < 10 THEN <<Digits[n + 1]>>
  ELSE Dec(n \div 10) \o <<Digits[(n % 10) + 1]>>

\* the string `byte${i + 1}:${previous[i]}->${current[i]}` of a delta
FormatToken(t) ==
  <<"b", "y", "t", "e">> \o Dec(t[1]) \o <<":">> \o Dec(t[2]) \o <<"-", ">">>
    \o Dec(t[3])

\* the order Array.prototype.sort puts two tokens in: any total order gives
\* the same comparison result, the one on the triples is used
TokenLess(a, b) ==
  \/ a[1] < b[1]
  \/ a[1] = b[1] /\ a[2] < b[2]
  \/ a[1] = b[1] /\ a[2] = b[2] /\ a[3] < b[3]

RECURSIVE Insert(_, _)
Insert(x, s) ==
  IF s = <<>> THEN <<x>>
  ELSE IF TokenLess(Head(s), x) THEN <<Head(s)>> \o Insert(x, Tail(s))
  ELSE <<x>> \o s

RECURSIVE Sort(_)
Sort(s) == IF s = <<>> THEN <<>> ELSE Insert(Head(s), Sort(Tail(s)))

\* matching that compares the sets of tokens of two lists of the same length
changesMatchAsSets(configChanges, actualChanges) ==
  /\ Len(configChanges) = Len(actualChanges)
  /\ {configChanges[k] : k \in 1..Len(configChanges)}
       = {actualChanges[k] : k \in 1..Len(actualChanges)}

\* matching that compares the two lists position by position, unsorted
changesMatchInOrder(configChanges, actualChanges) ==
  /\ Len(configChanges) = Len(actualChanges)
  /\ \A k \in 1..Len(configChanges) : configChanges[k] = actualChanges[k]

changesMatch(configChanges, actualChanges) ==
  IF Len(configChanges) # Len(actualChanges) THEN FALSE
  ELSE LET sortedConfig == Sort(configChanges)
           sortedActual == Sort(actualChanges)
       IN \A k \in 1..Len(sortedConfig) : sortedConfig[k] = sortedActual[k]

\* The catalog loaded from config-controls.json, in Object.entries order:
\* the buttons (id, changes), then knobs, toggles and joystick entries.
CatalogButtons ==
  << [id |-> <<"0">>, changes |-> << <<2, 64, 66>> >>],
     [id |-> <<"1">>, changes |-> << <<2, 64, 65>> >>] >>

CatalogKnobs == << [changes |-> << <<3, 0, 32>> >>] >>

CatalogToggles == << [changes |-> << <<3, 0, 8>> >>] >>

CatalogJoystick == << >>

\* config.controls of the catalog above
Catalog ==
  [buttons |-> CatalogButtons, knobs |-> CatalogKnobs, toggles |-> CatalogToggles,
   joystick |-> CatalogJoystick]

\* the entries of one kind, in Object.entries order
KindEntries(cat, kind) ==
  [k \in 1..Len(cat[kind]) |-> [kind |-> kind, pos |-> k, changes |-> cat[kind][k].changes]]

\* the search visiting the knobs before the buttons
SearchOrderKnobsFirst(cat) ==
  KindEntries(cat, "knobs") \o KindEntries(cat, "buttons")
    \o KindEntries(cat, "toggles") \o KindEntries(cat, "joystick")

\* the entries in the order matchChanges visits them
SearchOrder(cat) ==
  KindEntries(cat, "buttons") \o KindEntries(cat, "knobs")
    \o KindEntries(cat, "toggles") \o KindEntries(cat, "joystick")

\* the changes lists in the search order of matchChanges
CatalogOrder == [k \in 1..Len(SearchOrder(Catalog)) |-> SearchOrder(Catalog)[k].changes]

NoControl == << <<0, 0, 0>> >>

\* matchChanges returning null
NoEntry == [kind |-> "none", pos |-> 0, changes |-> NoControl]

\* matchChanges on the catalog cat: the first entry that matches, NoEntry for null
MatchEntry(cat, changes) ==
  LET order == SearchOrder(cat)
  IN IF \E k \in 1..Len(order) : changesMatch(order[k].changes, changes)
       THEN order[CHOOSE k \in 1..Len(order) :
                    /\ changesMatch(order[k].changes, changes)
                    /\ \A j \in 1..(k - 1) : ~changesMatch(order[j].changes, changes)]
       ELSE NoEntry

\* matchChanges: the changes list of the first matching entry, NoControl for null
matchChanges(changes) == MatchEntry(Catalog, changes).changes

\* findButtonIndexForControl on the catalog cat
ButtonIndexIn(cat, control) ==
  IF \E k \in 1..Len(cat.buttons) : changesMatch(cat.buttons[k].changes, control)
    THEN ParseInt(cat.buttons[CHOOSE k \in 1..Len(cat.buttons) :
                    /\ changesMatch(cat.buttons[k].changes, control)
                    /\ \A j \in 1..(k - 1) :
                         ~changesMatch(cat.buttons[j].changes, control)].id)
    ELSE -1

findButtonIndexForControl(control) == ButtonIndexIn(Catalog, control)

\* the buttonStates parse builds for the detected changes, on the catalog cat
StatesFor(cat, changes) ==
  LET matchedControl == MatchEntry(cat, changes)
      buttonIndex == IF matchedControl = NoEntry THEN -1
                     ELSE ButtonIndexIn(cat, matchedControl.changes)
  IN [k \in 1..NumSlots |-> buttonIndex >= 0 /\ buttonIndex < 8 /\ k = buttonIndex + 1]

\* the buttonStates of the event parse returns for data, given the stored snapshot
ParseStates(prev, data) ==
  IF Len(data) # ReportLen THEN AllFalse
  ELSE StatesFor(Catalog, detectChanges(prev, data))

\* parse on the catalog cat with the stored snapshot prev: whether
\* matchChanges resolved a control, and the buttonStates of the event
parseOn(cat, prev, data) ==
  IF Len(data) # ReportLen THEN [resolved |-> FALSE, states |-> AllFalse]
  ELSE [resolved |-> MatchEntry(cat, detectChanges(prev, data)) # NoEntry,
        states |-> StatesFor(cat, detectChanges(prev, data))]

\* testParse(baseline, data) on the catalog cat: null, or an event whose
\* buttonStates are new Array(8).fill(false)
testParseOn(cat, baseline, data) ==
  LET changes == detectChanges(baseline, data)
  IN IF Len(changes) = 0 THEN [null |-> TRUE, states |-> <<>>]
     ELSE IF MatchEntry(cat, changes) # NoEntry
       THEN [null |-> FALSE, states |-> AllFalse]
     ELSE [null |-> TRUE, states |-> <<>>]

\* parse storing the snapshot only when a control was matched
ParseSnapshotOnMatch(prev, data) ==
  IF Len(data) # ReportLen THEN prev
  ELSE IF matchChanges(detectChanges(prev, data)) = NoControl THEN prev
  ELSE data

\* the snapshot stored when parse returns
ParseSnapshot(prev, data) == IF Len(data) # ReportLen THEN prev ELSE data

(* ------------------------------------------------------------------ *)
(* ParserRegistry                                                     *)
(* ------------------------------------------------------------------ *)
\* vendorId and productId of the PXN CB1: 0x36E6, 0x8001
PxnVendorId == 14054

PxnProductId == 32769

\* A parser, as far as the registry looks at it: its name and the devices its
\* supportsDevice accepts (every device, or the one with the two ids).
ButtonParserEntry ==
  [name |-> "ButtonParser", every |-> TRUE, vendorId |-> 0, productId |-> 0]

AccurateParserEntry ==
  [name |-> "PXNCB1AccurateParser", every |-> FALSE, vendorId |-> PxnVendorId,
   productId |-> PxnProductId]

DetailedParserEntry ==
  [name |-> "PXNCB1DetailedParser", every |-> FALSE, vendorId |-> PxnVendorId,
   productId |-> PxnProductId]

\* the registrations of the ParserRegistry constructor, in order
DefaultParsers == <<ButtonParserEntry, AccurateParserEntry, DetailedParserEntry>>

\* parser.supportsDevice(device)
supportsDevice(p, dev) ==
  p.every \/ (dev.vendorId = p.vendorId /\ dev.productId = p.productId)

\* ParserRegistry.getParserForDevice: the first registered parser that supports
\* the device, null when there is none
getParserForDevice(ps, dev) ==
  IF \E k \in 1..Len(ps) : supportsDevice(ps[k], dev)
    THEN ps[CHOOSE k \in 1..Len(ps) :
              /\ supportsDevice(ps[k], dev)
              /\ \A j \in 1..(k - 1) : ~supportsDevice(ps[j], dev)].name
    ELSE "null"

(* ------------------------------------------------------------------ *)
(* ButtonParser                                                       *)
(* ------------------------------------------------------------------ *)
\* (byte & (1 << j)) !== 0
Bit(byte, j) == (byte \div (2 ^ j)) % 2 = 1

\* ButtonParser.parse testing the bits from the most significant one down
ButtonParseMsbFirst(data) ==
  [n \in 1..(8 * Len(data)) |-> Bit(data[((n - 1) \div 8) + 1], 7 - ((n - 1) % 8))]

\* ButtonParser.parse: eight slots per byte, bit j of byte i is slot 8 * i + j
ButtonParse(data) ==
  [n \in 1..(8 * Len(data)) |-> Bit(data[((n - 1) \div 8) + 1], (n - 1) % 8)]

\* parser.parse(data) of the parser the manager was constructed with
Parse(p, prev, data) ==
  IF p = "ButtonParser" THEN ButtonParse(data) ELSE ParseStates(prev, data)

\* the snapshot the parser holds when parse returns; ButtonParser keeps none
Snapshot(p, prev, data) ==
  IF p = "ButtonParser" THEN prev ELSE ParseSnapshot(prev, data)

(* ------------------------------------------------------------------ *)
(* ActionRegistry: routing of an action string to its runner          *)
(* ------------------------------------------------------------------ *)
LogAction == <<"l", "o", "g">>

ShellAction == <<"o", "p", "e", "n", " ", "u">>

MacroAction == MacroPrefix \o LogAction \o <<"|">> \o ShellAction

\* DEFAULT_CONFIG.actions: every slot 0..7 runs `log`
DefaultActions == [b \in 0..(NumSlots - 1) |-> LogAction]

\* the actions of the README's config.json merged over the defaults
ExampleActions ==
  [b \in 0..(NumSlots - 1) |->
     IF b = 1 THEN ShellAction ELSE IF b = 2 THEN MacroAction ELSE LogAction]

LooksLikeCommand(action) ==
  Includes(action, " ") \/ Includes(action, "/") \/ Includes(action, "\\")

\* a registry in which the LogActionRunner was not registered
RegistryRunnersNoLog == <<"ShellActionRunner", "MacroActionRunner">>

\* the runners the ActionRegistry constructor registers, in order
RegistryRunners == <<"LogActionRunner", "ShellActionRunner", "MacroActionRunner">>

\* the runners the constructor hands to the MacroActionRunner
MacroRunners == <<"LogActionRunner", "ShellActionRunner">>

\* runners.find(r => r.name === name) || null
Find(runners, name) ==
  IF \E k \in 1..Len(runners) : runners[k] = name THEN name ELSE "null"

\* findRunnerForAction testing for a command before testing for the macro prefix
RegistryRunnerCommandFirst(action) ==
  IF LooksLikeCommand(action) THEN Find(RegistryRunners, "ShellActionRunner")
  ELSE IF StartsWith(action, MacroPrefix) THEN Find(RegistryRunners, "MacroActionRunner")
  ELSE Find(RegistryRunners, "LogActionRunner")

\* ActionRegistry.findRunnerForAction
RegistryRunner(action) ==
  IF StartsWith(action, MacroPrefix) THEN Find(RegistryRunners, "MacroActionRunner")
  ELSE IF LooksLikeCommand(action) THEN Find(RegistryRunners, "ShellActionRunner")
  ELSE Find(RegistryRunners, "LogActionRunner")

\* MacroActionRunner.findRunnerForAction
MacroRunner(action) ==
  IF LooksLikeCommand(action) THEN Find(MacroRunners, "ShellActionRunner")
  ELSE Find(MacroRunners, "LogActionRunner")

\* the steps of a macro taken in the reverse order
StepsReversed(action) ==
  IF RegistryRunner(action) = "MacroActionRunner"
    THEN LET macroActions == Split(Substring(action, 6), "|")
             n == Len(macroActions)
         IN [k \in 1..n |->
               [runner |-> MacroRunner(macroActions[n + 1 - k]),
                action |-> macroActions[n + 1 - k], macro |-> TRUE, k |-> n + 1 - k]]
    ELSE <<[runner |-> RegistryRunner(action), action |-> action, macro |-> FALSE,
            k |-> 1]>>

\* the runner executions executeAction(action) performs, in order: the runner,
\* the string it is given, whether MacroActionRunner.execute makes the call, and
\* the position of the string among the sub-actions
Steps(action) ==
  IF RegistryRunner(action) = "MacroActionRunner"
    THEN LET macroActions == Split(Substring(action, 6), "|")
         IN [k \in 1..Len(macroActions) |->
               [runner |-> MacroRunner(macroActions[k]), action |-> macroActions[k],
                macro |-> TRUE, k |-> k]]
    ELSE <<[runner |-> RegistryRunner(action), action |-> action, macro |-> FALSE,
            k |-> 1]>>

RECURSIVE RunSteps(_)
\* runs the steps that complete without leaving the event-loop turn (log, and
\* a macro step without runner, which is skipped with a warning); what is left
\* starts with the subprocess being awaited
RunSteps(todo) ==
  IF todo = <<>> THEN <<>>
  ELSE IF Head(todo).runner \in {"LogActionRunner", "null"} THEN RunSteps(Tail(todo))
  ELSE todo

\* how execAsync settles: the command exits with 0, exits non-zero, or cannot
\* be started
Outcomes == {"ok", "nonzero", "spawn"}

\* ShellActionRunner.execute letting the rejection of execAsync through
ShellExecuteRethrows(outcome) == IF outcome = "ok" THEN "returned" ELSE "thrown"

\* ShellActionRunner.execute: a rejection of execAsync is caught and logged
ShellExecute(outcome) == "returned"

\* the awaited step being run again when its command failed
AfterRetries(todo, outcome) ==
  IF outcome # "ok" THEN [todo |-> todo, thrown |-> FALSE]
  ELSE [todo |-> Tail(todo), thrown |-> FALSE]

\* What is left of executeAction once the subprocess of the step Head(todo) has
\* settled: an exception leaving the runner inside a macro is caught by
\* MacroActionRunner.execute, which gives up the remaining steps; outside a
\* macro it leaves executeAction.
After(todo, outcome) ==
  IF ShellExecute(outcome) = "thrown"
    THEN [todo |-> <<>>, thrown |-> ~Head(todo).macro]
    ELSE [todo |-> Tail(todo), thrown |-> FALSE]

(* ------------------------------------------------------------------ *)
(* HIDDeviceManager.processButtonStates                               *)
(* ------------------------------------------------------------------ *)
\* the loop testing the level of the slot instead of its edge
JustPressedLevel(currentStates, previousStates, i) == At(currentStates, i)

\* the test `currentState && !previousState` of the loop
JustPressed(currentStates, previousStates, i) ==
  At(currentStates, i) /\ ~At(previousStates, i)

RECURSIVE LoopDispatchUnmapped(_, _, _, _, _)
\* the loop counting a slot without ActionMapping as dispatched
LoopDispatchUnmapped(actions, currentStates, previousStates, i, disp) ==
  IF i >= Max(Len(currentStates), Len(previousStates))
    THEN [done |-> TRUE, i |-> i, todo |-> <<>>, disp |-> disp]
  ELSE IF JustPressed(currentStates, previousStates, i)
    THEN IF i \notin DOMAIN actions
           THEN LoopDispatchUnmapped(actions, currentStates, previousStates, i + 1,
                                     Append(disp, i))
           ELSE LET rest == RunSteps(Steps(actions[i]))
                IN IF rest = <<>>
                     THEN LoopDispatchUnmapped(actions, currentStates, previousStates,
                                               i + 1, Append(disp, i))
                     ELSE [done |-> FALSE, i |-> i, todo |-> rest,
                           disp |-> Append(disp, i)]
  ELSE LoopDispatchUnmapped(actions, currentStates, previousStates, i + 1, disp)

RECURSIVE LoopNoAwait(_, _, _, _, _)
\* the loop starting each action without awaiting it
LoopNoAwait(actions, currentStates, previousStates, i, disp) ==
  IF i >= Max(Len(currentStates), Len(previousStates))
    THEN [done |-> TRUE, i |-> i, todo |-> <<>>, disp |-> disp]
  ELSE IF JustPressed(currentStates, previousStates, i)
    THEN IF i \notin DOMAIN actions
           THEN LoopNoAwait(actions, currentStates, previousStates, i + 1, disp)
           ELSE LoopNoAwait(actions, currentStates, previousStates, i + 1,
                            Append(disp, i))
  ELSE LoopNoAwait(actions, currentStates, previousStates, i + 1, disp)

RECURSIVE Loop(_, _, _, _, _)
\* The for loop from index i on, up to its first suspension on a subprocess
\* or to its end; disp collects the slots whose action was dispatched.
Loop(actions, currentStates, previousStates, i, disp) ==
  IF i >= Max(Len(currentStates), Len(previousStates))
    THEN [done |-> TRUE, i |-> i, todo |-> <<>>, disp |-> disp]
  ELSE IF JustPressed(currentStates, previousStates, i)
    THEN IF i \notin DOMAIN actions
           THEN Loop(actions, currentStates, previousStates, i + 1, disp)
           ELSE LET rest == RunSteps(Steps(actions[i]))
                IN IF rest = <<>>
                     THEN Loop(actions, currentStates, previousStates, i + 1,
                               Append(disp, i))
                     ELSE [done |-> FALSE, i |-> i, todo |-> rest,
                           disp |-> Append(disp, i)]
  ELSE Loop(actions, currentStates, previousStates, i + 1, disp)

(* ------------------------------------------------------------------ *)
(* Inputs                                                             *)
(* ------------------------------------------------------------------ *)
\* 6-byte control reports: rest position, catalog button 1 held, knob up
Idle == <<1, 64, 0, 0, 0, 0>>

PressA == <<1, 65, 0, 0, 0, 0>>

KnobUp == <<1, 64, 32, 0, 0, 0>>

\* a status packet, of another length than a control report
Status == <<1, 64>>

Reports == {Idle, PressA, KnobUp, Status}

BurstReports == {Idle, PressA}

Configs == {DefaultActions, ExampleActions}

\* Reports read by the ButtonParser: nothing held, buttons 0 and 1 held, and a
\* two-byte report whose second byte sets slot 8, which has no ActionMapping
Released == <<0>>

Both == <<3>>

First8 == <<1, 1>>

DispatchReports == {Released, Both, First8}

\* a command, then a macro whose command is followed by another step
MacroThree == MacroPrefix \o LogAction \o <<"|">> \o ShellAction \o <<"|">> \o LogAction

DispatchActions ==
  [b \in 0..(NumSlots - 1) |->
     IF b = 0 THEN ShellAction ELSE IF b = 1 THEN MacroThree ELSE LogAction]

\* action strings: every concatenation of up to MaxPieces of the pieces that
\* the routing tests look at, and the macros of the configurations above
Pieces == {MacroPrefix, LogAction, <<"|">>, <<" ">>, <<"/">>, <<"\\">>}

RECURSIVE Concats(_)
Concats(n) ==
  IF n = 0 THEN {<<>>}
  ELSE Concats(n - 1) \cup {s \o p : s \in Concats(n - 1), p \in Pieces}

ActionSpecs == Concats(MaxPieces) \cup {MacroAction, MacroThree}

\* the pressed/released reports of button 0
ActionReports == {Released, <<1>>}

(* ------------------------------------------------------------------ *)
(* State                                                              *)
(* ------------------------------------------------------------------ *)
VARIABLES
  device,            \* HIDDeviceManager.device: "null" or "open"
  isConnected,       \* HIDDeviceManager.isConnected
  lastButtonStates,  \* HIDDeviceManager.lastButtonStates
  debounceTimer,     \* HIDDeviceManager.debounceTimer: 0 for null, else a timer id
  timers,            \* the timeouts the runtime holds: [id, event, left]
  calls,             \* processButtonStates calls suspended on a subprocess
  handles,           \* opened HID handles whose handlers are attached
  previousState,     \* ControlConfigParser.previousState
  config,            \* Config.actions
  parser,            \* the EventParser the manager was constructed with
  parsedEvent,       \* the event the last handleDeviceData call parsed
  reportCount,       \* reports delivered so far; the next one gets reportCount + 1
  last6,             \* the most recent 6-byte report, ZeroState before the first
  fireLog,           \* the processButtonStates calls, as each started
  discAt,            \* reportCount when disconnect() last found a notification pending
  burstHits,         \* slots set by the earlier reports of the burst in progress
  burstLen,          \* reports of the burst in progress: 0, 1 or 2 for more
  edgeLog,           \* <<report, slot>>: slot went false->true at that report
  dispatchLog,       \* <<report, slot>>: executeAction called for slot, event of report
  execLog,           \* the runner executions: report, slot, step, runner, string, outcome
  raised,            \* an exception has left executeAction
  args,              \* the arguments a function of the parser is applied to
  result,            \* what it returned, "none" before the call
  parsers,           \* ParserRegistry.parsers
  isRunning,         \* HIDMonitor.isRunning
  hooks,             \* setupGracefulShutdown() has added the signal listeners
  exited,            \* process.exit() has been called
  connected          \* what the last connect() returned, "none" before the first

prog == <<device, isConnected, lastButtonStates, debounceTimer, timers, calls,
          handles, previousState, config, parser, parsedEvent>>

hist == <<reportCount, last6, fireLog, discAt, burstHits, burstLen,
          edgeLog, dispatchLog>>

exec == <<execLog, raised>>

app == <<isRunning, hooks, exited, connected>>

pure == <<args, result, parsers, app>>

vars == <<prog, hist, exec, pure>>

Slots == 0..(NumSlots - 1)

TrueSlots(states) == {b \in Slots : At(states, b)}

NoEvent == [seq |-> 0, states |-> <<>>, rawData |-> <<>>]

Init ==
  /\ device = "null"
  /\ isConnected = FALSE
  /\ lastButtonStates = <<>>
  /\ debounceTimer = 0
  /\ timers = {}
  /\ calls = {}
  /\ handles = 0
  /\ previousState = ZeroState
  /\ config \in Configs
  /\ parser = "ControlConfigParser"
  /\ parsedEvent = NoEvent
  /\ reportCount = 0
  /\ last6 = ZeroState
  /\ fireLog = <<>>
  /\ discAt = 0
  /\ burstHits = {}
  /\ burstLen = 0
  /\ edgeLog = {}
  /\ dispatchLog = <<>>
  /\ execLog = <<>>
  /\ raised = FALSE
  /\ args = <<>>
  /\ result = "none"
  /\ parsers = DefaultParsers
  /\ isRunning = FALSE
  /\ hooks = FALSE
  /\ exited = FALSE
  /\ connected = "none"

(* ------------------------------------------------------------------ *)
(* HIDDeviceManager                                                   *)
(* ------------------------------------------------------------------ *)
\* isDeviceConnected()
IsDeviceConnected == isConnected /\ device # "null"

\* clearTimeout(id)
ClearTimeout(ts, id) == {t \in ts : t.id # id}

\* the debounce timeout that is still to fire, if any
Pending == {t \in timers : t.id = debounceTimer}

\* connect() finding and opening the target device
ConnectOk ==
  /\ device' = "open"
  /\ isConnected' = TRUE
  /\ handles' = handles + 1
  /\ UNCHANGED <<lastButtonStates, debounceTimer, timers, calls, previousState,
                 config, parser, parsedEvent>>

\* connect() setting isConnected before it opens the device
ConnectFailMarksConnected ==
  /\ isConnected' = TRUE
  /\ UNCHANGED <<device, lastButtonStates, debounceTimer, timers, calls, handles,
                 previousState, config, parser, parsedEvent>>

\* connect() when the device is not found or opening it throws
ConnectFail == UNCHANGED prog

\* disconnect() dropping its reference to the timer without clearing it
disconnectNoClear ==
  /\ IF device # "null"
       THEN device' = "null" /\ isConnected' = FALSE /\ handles' = handles - 1
       ELSE UNCHANGED <<device, isConnected, handles>>
  /\ debounceTimer' = 0
  /\ UNCHANGED <<timers, lastButtonStates, calls, previousState, config, parser,
                 parsedEvent>>

disconnect ==
  /\ IF device # "null"
       THEN device' = "null" /\ isConnected' = FALSE /\ handles' = handles - 1
       ELSE UNCHANGED <<device, isConnected, handles>>
  /\ IF debounceTimer # 0
       THEN timers' = ClearTimeout(timers, debounceTimer) /\ debounceTimer' = 0
       ELSE UNCHANGED <<timers, debounceTimer>>
  /\ UNCHANGED <<lastButtonStates, calls, previousState, config, parser, parsedEvent>>

\* the 'error' handler of setupEventHandlers
OnError ==
  /\ isConnected' = FALSE
  /\ UNCHANGED <<device, lastButtonStates, debounceTimer, timers, calls, handles,
                 previousState, config, parser, parsedEvent>>

\* the 'close' handler of setupEventHandlers
OnClose ==
  /\ isConnected' = FALSE
  /\ UNCHANGED <<device, lastButtonStates, debounceTimer, timers, calls, handles,
                 previousState, config, parser, parsedEvent>>

\* handleDeviceData scheduling the new timeout without clearing the old one
handleDeviceDataNoClear(data) ==
  LET event == [seq |-> reportCount + 1,
                states |-> Parse(parser, previousState, data),
                rawData |-> data]
  IN /\ previousState' = Snapshot(parser, previousState, data)
     /\ parsedEvent' = event
     /\ timers' = timers \cup {[id |-> reportCount + 1, event |-> event, left |-> Debounce]}
     /\ debounceTimer' = reportCount + 1
     /\ UNCHANGED <<device, isConnected, lastButtonStates, calls, handles, config,
                    parser>>

\* handleDeviceData marking the manager connected again when data arrives
handleDeviceDataReconnects(data) ==
  LET event == [seq |-> reportCount + 1,
                states |-> Parse(parser, previousState, data),
                rawData |-> data]
      kept == IF debounceTimer # 0 THEN ClearTimeout(timers, debounceTimer) ELSE timers
  IN /\ previousState' = Snapshot(parser, previousState, data)
     /\ parsedEvent' = event
     /\ timers' = kept \cup {[id |-> reportCount + 1, event |-> event, left |-> Debounce]}
     /\ debounceTimer' = reportCount + 1
     /\ isConnected' = TRUE
     /\ UNCHANGED <<device, lastButtonStates, calls, handles, config, parser>>

handleDeviceData(data) ==
  LET event == [seq |-> reportCount + 1,
                states |-> Parse(parser, previousState, data),
                rawData |-> data]
      kept == IF debounceTimer # 0 THEN ClearTimeout(timers, debounceTimer) ELSE timers
  IN /\ previousState' = Snapshot(parser, previousState, data)
     /\ parsedEvent' = event
     /\ timers' = kept \cup {[id |-> reportCount + 1, event |-> event, left |-> Debounce]}
     /\ debounceTimer' = reportCount + 1
     /\ UNCHANGED <<device, isConnected, lastButtonStates, calls, handles, config,
                    parser>>

\* the outcome r of Loop for the call of event: the call is over and the states
\* are stored, or it stays suspended on the subprocess of slot r.i
Settle(event, prev, r, others) ==
  /\ IF r.done
       THEN /\ lastButtonStates' = event.states
            /\ calls' = others
       ELSE /\ lastButtonStates' = lastButtonStates
            /\ calls' = others \cup {[seq |-> event.seq, states |-> event.states,
                                      prev |-> prev, i |-> r.i, todo |-> r.todo]}
  /\ dispatchLog' = dispatchLog \o [k \in 1..Len(r.disp) |-> <<event.seq, r.disp[k]>>]

\* processButtonStates(event) up to its first suspension
processButtonStates(event) ==
  LET r == Loop(config, event.states, lastButtonStates, 0, <<>>)
  IN /\ r.done \/ Cardinality(calls) < MaxCalls
     /\ Settle(event, lastButtonStates, r, calls)

\* the call c ending, its states not stored, when its command failed
resumeAbortsOnFailure(c, outcome) ==
  IF outcome # "ok"
    THEN calls' = calls \ {c} /\ UNCHANGED <<lastButtonStates, dispatchLog>>
    ELSE LET rest == RunSteps(Tail(c.todo))
             r == IF rest # <<>>
                    THEN [done |-> FALSE, i |-> c.i, todo |-> rest, disp |-> <<>>]
                    ELSE Loop(config, c.states, c.prev, c.i + 1, <<>>)
         IN Settle([seq |-> c.seq, states |-> c.states], c.prev, r, calls \ {c})

\* The subprocess the call c awaits has settled with outcome: the call goes on
\* with the steps left of the action and then with the loop. An exception that
\* leaves executeAction is caught by triggerButtonAction, so the loop goes on
\* in either case.
resume(c, outcome) ==
  LET rest == RunSteps(After(c.todo, outcome).todo)
      r == IF rest # <<>>
             THEN [done |-> FALSE, i |-> c.i, todo |-> rest, disp |-> <<>>]
             ELSE Loop(config, c.states, c.prev, c.i + 1, <<>>)
  IN Settle([seq |-> c.seq, states |-> c.states], c.prev, r, calls \ {c})

(* ------------------------------------------------------------------ *)
(* Steps                                                              *)
(* ------------------------------------------------------------------ *)
Connect ==
  /\ handles < MaxHandles
  /\ ConnectOk
  /\ UNCHANGED <<hist, exec, pure>>

ConnectFailed ==
  /\ ConnectFail
  /\ UNCHANGED <<hist, exec, pure>>

Disconnect ==
  /\ disconnect
  /\ discAt' = IF Pending # {} THEN reportCount ELSE discAt
  /\ UNCHANGED <<reportCount, last6, fireLog, burstHits, burstLen, edgeLog,
                 dispatchLog>>
  /\ UNCHANGED <<exec, pure>>

TransportError ==
  /\ handles > 0
  /\ OnError
  /\ UNCHANGED <<hist, exec, pure>>

TransportClose ==
  /\ handles > 0
  /\ OnClose
  /\ UNCHANGED <<hist, exec, pure>>

\* an open handle emits 'data'
Deliver(data) ==
  /\ handles > 0
  /\ handleDeviceData(data)
  /\ reportCount' = reportCount + 1
  /\ last6' = IF Len(data) = ReportLen THEN data ELSE last6
  /\ burstHits' = IF \E t \in Pending : t.left > 0
                    THEN burstHits \cup TrueSlots(parsedEvent.states)
                    ELSE {}
  /\ burstLen' = IF \E t \in Pending : t.left > 0 THEN 2 ELSE 1
  /\ edgeLog' = edgeLog \cup
       {<<reportCount + 1, b>> : b \in
          {x \in Slots : At(parsedEvent'.states, x) /\ ~At(parsedEvent.states, x)}}
  /\ UNCHANGED <<fireLog, discAt, dispatchLog>>
  /\ UNCHANGED <<exec, pure>>

Report ==
  \E data \in Reports :
    /\ reportCount < MaxReports
    /\ Deliver(data)

\* time passes; a due timeout runs before more time passes
Tick ==
  /\ timers # {}
  /\ \A t \in timers : t.left > 0
  /\ timers' = {[t EXCEPT !.left = Max(0, t.left - TickStep)] : t \in timers}
  /\ UNCHANGED <<device, isConnected, lastButtonStates, debounceTimer, calls, handles,
                 previousState, config, parser, parsedEvent>>
  /\ UNCHANGED <<hist, exec, pure>>

\* the callback of the due timeout t runs
Timeout(t) ==
  /\ t.left = 0
  /\ timers' = timers \ {t}
  /\ processButtonStates(t.event)
  /\ fireLog' = Append(fireLog,
                       [event |-> t.event, latest |-> parsedEvent.seq,
                        prev |-> lastButtonStates, hits |-> burstHits,
                        len |-> burstLen, stale |-> (t.event.seq <= discAt)])
  /\ UNCHANGED <<device, isConnected, debounceTimer, handles, previousState, config,
                 parser, parsedEvent>>
  /\ UNCHANGED <<reportCount, last6, discAt, burstHits, burstLen, edgeLog>>
  /\ UNCHANGED pure

\* a due timeout runs its callback
Fire ==
  \E t \in timers :
    /\ Timeout(t)
    /\ UNCHANGED exec

\* the subprocess the call c awaits settles with outcome
Settled(c, outcome) ==
  /\ resume(c, outcome)
  /\ UNCHANGED <<device, isConnected, debounceTimer, timers, handles, previousState,
                 config, parser, parsedEvent>>
  /\ UNCHANGED <<reportCount, last6, fireLog, discAt, burstHits, burstLen,
                 edgeLog>>
  /\ UNCHANGED pure

\* the subprocess of a suspended call exits or fails
ActionComplete ==
  \E c \in calls : \E outcome \in Outcomes :
    /\ Settled(c, outcome)
    /\ UNCHANGED exec

Next ==
  \/ Connect
  \/ ConnectFailed
  \/ Disconnect
  \/ TransportError
  \/ TransportClose
  \/ Report
  \/ Tick
  \/ Fire
  \/ ActionComplete

Spec == Init /\ [][Next]_vars

\* One connection on which only Idle and PressA arrive: bursts of up to
\* MaxBurstReports reports.
BurstConnect ==
  /\ handles = 0
  /\ Connect

BurstReport ==
  \E data \in BurstReports :
    /\ reportCount < MaxBurstReports
    /\ Deliver(data)

NextBurst ==
  \/ BurstConnect
  \/ BurstReport
  \/ Tick
  \/ Fire
  \/ ActionComplete

SpecBurst == Init /\ [][NextBurst]_vars

(* ------------------------------------------------------------------ *)
(* The manager with the ButtonParser, the runner executions recorded   *)
(* ------------------------------------------------------------------ *)
InitManager(configs, p) ==
  /\ device = "null"
  /\ isConnected = FALSE
  /\ lastButtonStates = <<>>
  /\ debounceTimer = 0
  /\ timers = {}
  /\ calls = {}
  /\ handles = 0
  /\ previousState = ZeroState
  /\ config \in configs
  /\ parser = p
  /\ parsedEvent = NoEvent
  /\ reportCount = 0
  /\ last6 = ZeroState
  /\ fireLog = <<>>
  /\ discAt = 0
  /\ burstHits = {}
  /\ burstLen = 0
  /\ edgeLog = {}
  /\ dispatchLog = <<>>
  /\ execLog = <<>>
  /\ raised = FALSE
  /\ parsers = DefaultParsers
  /\ isRunning = FALSE
  /\ hooks = FALSE
  /\ exited = FALSE
  /\ connected = "none"

HasRunner(st) == st.runner # "null"

Entry(seq, b, st, outcome) ==
  [seq |-> seq, slot |-> b, k |-> st.k, runner |-> st.runner, action |-> st.action,
   macro |-> st.macro, outcome |-> outcome]

\* the executions made when the steps todo of the action of slot b are run up
\* to the first subprocess: the log steps, then the command that is started
Started(seq, b, todo) ==
  LET rest == RunSteps(todo)
      ran == SelectSeq(SubSeq(todo, 1, Len(todo) - Len(rest)), HasRunner)
  IN [k \in 1..Len(ran) |-> Entry(seq, b, ran[k], "ok")]
       \o (IF rest = <<>> THEN <<>> ELSE <<Entry(seq, b, Head(rest), "running")>>)

RECURSIVE ExecsOf(_, _)
\* the executions made for the slots disp dispatched by one run of the loop
ExecsOf(seq, disp) ==
  IF disp = <<>> THEN <<>>
  ELSE (IF Head(disp) \in DOMAIN config
          THEN Started(seq, Head(disp), Steps(config[Head(disp)]))
          ELSE <<>>)
       \o ExecsOf(seq, Tail(disp))

\* executeAction throws `No action runner found` for one of the slots disp
NoRunner(disp) ==
  \E k \in 1..Len(disp) :
    disp[k] \in DOMAIN config /\ RegistryRunner(config[disp[k]]) = "null"

FireLogged ==
  \E t \in timers :
    /\ Timeout(t)
    /\ LET r == Loop(config, t.event.states, lastButtonStates, 0, <<>>)
       IN /\ execLog' = execLog \o ExecsOf(t.event.seq, r.disp)
          /\ raised' = (raised \/ NoRunner(r.disp))

ActionCompleteLogged ==
  \E c \in calls : \E outcome \in Outcomes :
    /\ Settled(c, outcome)
    /\ LET a == After(c.todo, outcome)
           rest == RunSteps(a.todo)
           r == Loop(config, c.states, c.prev, c.i + 1, <<>>)
           marked == [k \in 1..Len(execLog) |->
                        IF /\ execLog[k].outcome = "running"
                           /\ execLog[k].seq = c.seq
                           /\ execLog[k].slot = c.i
                          THEN [execLog[k] EXCEPT !.outcome = outcome]
                          ELSE execLog[k]]
       IN /\ execLog' = marked \o Started(c.seq, c.i, a.todo)
                          \o (IF rest = <<>> THEN ExecsOf(c.seq, r.disp) ELSE <<>>)
          /\ raised' = (raised \/ a.thrown \/ (rest = <<>> /\ NoRunner(r.disp)))

InitDispatch ==
  /\ InitManager({DispatchActions}, "ButtonParser")
  /\ args = <<>>
  /\ result = "none"

DispatchReport ==
  \E data \in DispatchReports :
    /\ reportCount < MaxDispatchReports
    /\ Deliver(data)

NextDispatch ==
  \/ BurstConnect
  \/ DispatchReport
  \/ Tick
  \/ FireLogged
  \/ ActionCompleteLogged

SpecDispatch == InitDispatch /\ [][NextDispatch]_vars

\* Button 0 mapped to every action string in turn
InitActions ==
  /\ InitManager({[DefaultActions EXCEPT ![0] = s] : s \in ActionSpecs}, "ButtonParser")
  /\ args = <<>>
  /\ result = "none"

ActionReport ==
  \E data \in ActionReports :
    /\ reportCount < MaxActionReports
    /\ Deliver(data)

NextActions ==
  \/ BurstConnect
  \/ ActionReport
  \/ Tick
  \/ FireLogged
  \/ ActionCompleteLogged

SpecActions == InitActions /\ [][NextActions]_vars

(* ------------------------------------------------------------------ *)
(* detectChanges and changesMatch applied to arbitrary arguments      *)
(* ------------------------------------------------------------------ *)
SeqsUpTo(S, n) == UNION {[1..m -> S] : m \in 0..n}

\* byte values: those of the reports above
Bytes == {0, 64, 65}

\* delta tokens: those of the catalog above
Tokens == {<<2, 64, 65>>, <<2, 64, 66>>, <<3, 0, 32>>}

InitDetect ==
  /\ InitManager({DefaultActions}, "ControlConfigParser")
  /\ args \in SeqsUpTo(Bytes, MaxLen) \X SeqsUpTo(Bytes, MaxLen)
  /\ result = [done |-> FALSE, value |-> <<>>]

DetectChanges ==
  /\ ~result.done
  /\ result' = [done |-> TRUE, value |-> detectChanges(args[1], args[2])]
  /\ UNCHANGED <<prog, hist, exec, args, parsers, app>>

NextDetect == DetectChanges

SpecDetect == InitDetect /\ [][NextDetect]_vars

InitMatch ==
  /\ InitManager({DefaultActions}, "ControlConfigParser")
  /\ args \in SeqsUpTo(Tokens, MaxTokens) \X SeqsUpTo(Tokens, MaxTokens)
  /\ result = [done |-> FALSE, value |-> FALSE]

ChangesMatch ==
  /\ ~result.done
  /\ result' = [done |-> TRUE, value |-> changesMatch(args[1], args[2])]
  /\ UNCHANGED <<prog, hist, exec, args, parsers, app>>

NextMatch == ChangesMatch

SpecMatch == InitMatch /\ [][NextMatch]_vars

(* ------------------------------------------------------------------ *)
(* The ControlConfigParser constructed on arbitrary catalogs           *)
(* ------------------------------------------------------------------ *)
T1 == <<2, 64, 65>>

T2 == <<3, 0, 32>>

\* the signatures catalog entries are given: none, one or two tokens
Signatures == {<<>>, <<T1>>, <<T1, T2>>, <<T2, T1>>}

\* the delta lists resolved
ChangeLists == Signatures \cup {<<T2>>}

Kinds == {"buttons", "knobs", "toggles", "joystick"}

\* the entries of kind among es, as config.controls[kind] lists them; a button
\* gets its position as key
OfKind(es, kind) ==
  LET mine == SelectSeq(es, LAMBDA e : e[1] = kind)
  IN [k \in 1..Len(mine) |-> [id |-> <<Digits[k]>>, changes |-> mine[k][2]]]

BuildCatalog(es) ==
  [buttons |-> OfKind(es, "buttons"), knobs |-> OfKind(es, "knobs"),
   toggles |-> OfKind(es, "toggles"), joystick |-> OfKind(es, "joystick")]

Catalogs == {BuildCatalog(es) : es \in SeqsUpTo(Kinds \X Signatures, MaxEntries)}

\* config-controls.json: a catalog, or a file that cannot be read or parsed
Files ==
  {[readable |-> TRUE, catalog |-> c] : c \in Catalogs}
    \cup {[readable |-> FALSE, catalog |-> BuildCatalog(<<>>)]}

\* the ControlConfigParser constructor returns: readFileSync and JSON.parse
\* did not throw
Constructs(file) == file.readable

InitResolve ==
  /\ InitManager({DefaultActions}, "ControlConfigParser")
  /\ args \in {[file |-> f, changes |-> c, other |-> o] :
                 f \in Files, c \in ChangeLists, o \in ChangeLists}
  /\ result = [stage |-> "new", entry |-> NoEntry, other |-> NoEntry,
               states |-> AllFalse]

Construct ==
  /\ result.stage = "new"
  /\ result' = [result EXCEPT
                  !.stage = IF Constructs(args.file) THEN "loaded" ELSE "failed"]
  /\ UNCHANGED <<prog, hist, exec, args, parsers, app>>

\* matchChanges applied to the two delta lists, and the button states parse
\* builds for the first
Resolve ==
  /\ result.stage = "loaded"
  /\ result' = [stage |-> "resolved",
                entry |-> MatchEntry(args.file.catalog, args.changes),
                other |-> MatchEntry(args.file.catalog, args.other),
                states |-> StatesFor(args.file.catalog, args.changes)]
  /\ UNCHANGED <<prog, hist, exec, args, parsers, app>>

NextResolve ==
  \/ Construct
  \/ Resolve

SpecResolve == InitResolve /\ [][NextResolve]_vars

(* ------------------------------------------------------------------ *)
(* parse on the reports of test-config-parser.js                      *)
(* ------------------------------------------------------------------ *)
\* control reports around the baseline 01 40 00 00 00 00 of the test
TestReports == {<<1, b2, b3, 0, 0, 0>> : b2 \in {64, 65, 66}, b3 \in {0, 8, 32}}

InitTokens ==
  /\ InitManager({DefaultActions}, "ControlConfigParser")
  /\ args \in TestReports \X TestReports
  /\ result = [done |-> FALSE, tokens |-> <<>>, entry |-> NoEntry]

\* the delta strings of the report args[2] against the baseline args[1], and
\* the entry they resolve to
DetectAndMatch ==
  /\ ~result.done
  /\ LET changes == detectChanges(args[1], args[2])
     IN result' = [done |-> TRUE,
                   tokens |-> [k \in 1..Len(changes) |-> FormatToken(changes[k])],
                   entry |-> MatchEntry(Catalog, changes)]
  /\ UNCHANGED <<prog, hist, exec, args, parsers, app>>

NextTokens == DetectAndMatch

SpecTokens == InitTokens /\ [][NextTokens]_vars

(* ------------------------------------------------------------------ *)
(* The three-state toggle decoders                                    *)
(* ------------------------------------------------------------------ *)
\* n >> k on a byte
ShiftRight(n, k) == n \div (2 ^ k)

\* getToggleState of the analysis script
getToggleState(value) ==
  CASE value = 0 -> "DOWN"
    [] value = 1 -> "MIDDLE"
    [] value = 2 -> "UP"
    [] OTHER -> "UNKNOWN"

\* Toggle 1 of the analysis script: (byte3 >> 4) & 0x03
Toggle1(byte3) == ShiftRight(byte3, 4) % 4

\* PXNCB1AccurateParser.parseSwitchesAndKnobs: toggle_switch_1
switch1(switchByte) == ShiftRight(switchByte, 4) % 4

\* PXNCB1AccurateParser.logEventDetails: the name given to an active switch
stateName(state) ==
  IF state = 1 THEN "ON" ELSE IF state = 2 THEN "UP" ELSE "DOWN"

\* PXNCB1AccurateParser.logEventDetails: only switches with state > 0 are
\* named; "none" stands for a switch left out of the log line
activeSwitches(state) == IF state > 0 THEN stateName(state) ELSE "none"

\* PXNCB1Parser.parseToggles: toggle_{i + 1} of the toggle byte
toggleValue(toggleByte, i) == ShiftRight(toggleByte, i * 2) % 4

InitToggle ==
  /\ InitManager({DefaultActions}, "ControlConfigParser")
  /\ args \in 0..255
  /\ result = [done |-> FALSE,
               script |-> [field |-> 0, name |-> "none"],
               accurate |-> [field |-> 0, name |-> "none"],
               generic |-> [field |-> 0]]

\* every decoder reads toggle 1 of the byte args
DecodeToggle ==
  /\ ~result.done
  /\ result' = [done |-> TRUE,
                script |-> [field |-> Toggle1(args),
                            name |-> getToggleState(Toggle1(args))],
                accurate |-> [field |-> switch1(args),
                              name |-> activeSwitches(switch1(args))],
                generic |-> [field |-> toggleValue(args, 0)]]
  /\ UNCHANGED <<prog, hist, exec, args, parsers, app>>

NextToggle == DecodeToggle

SpecToggle == InitToggle /\ [][NextToggle]_vars

(* ------------------------------------------------------------------ *)
(* The manager with the debug methods of the ControlConfigParser       *)
(* ------------------------------------------------------------------ *)
\* slot 1, the slot of the catalog's button "1", mapped to a log action, a
\* shell command and two macros in turn
DebugConfigs ==
  {[DefaultActions EXCEPT ![1] = s] :
     s \in {LogAction, ShellAction, MacroAction, MacroThree}}

DebugReports == {Idle, PressA}

DebugBuffers == {Idle, PressA, KnobUp}

NoResult == [method |-> "none", changes |-> <<>>, null |-> TRUE]

\* getDetectedChanges storing its argument as the snapshot
getDetectedChangesStores(data) ==
  /\ result' = [method |-> "getDetectedChanges",
                changes |-> detectChanges(previousState, data),
                null |-> FALSE]
  /\ previousState' = data
  /\ UNCHANGED <<device, isConnected, lastButtonStates, debounceTimer, timers, calls,
                 handles, config, parser, parsedEvent>>

\* getDetectedChanges(data): the deltas against the stored snapshot
getDetectedChanges(data) ==
  /\ result' = [method |-> "getDetectedChanges",
                changes |-> detectChanges(previousState, data),
                null |-> FALSE]
  /\ UNCHANGED prog

\* testParse(baseline, data): null, or an event whose buttonStates are all
\* false
testParse(baseline, data) ==
  /\ result' = [method |-> "testParse",
                changes |-> <<>>,
                null |-> testParseOn(Catalog, baseline, data).null]
  /\ UNCHANGED prog

InitDebug ==
  /\ InitManager(DebugConfigs, "ControlConfigParser")
  /\ args = <<>>
  /\ result = NoResult

DebugReport ==
  \E data \in DebugReports :
    /\ reportCount < MaxDebugReports
    /\ Deliver(data)

GetDetectedChanges ==
  \E data \in DebugBuffers :
    /\ getDetectedChanges(data)
    /\ UNCHANGED <<hist, exec, args, parsers, app>>

TestParse ==
  \E baseline \in DebugBuffers : \E data \in DebugBuffers :
    /\ testParse(baseline, data)
    /\ UNCHANGED <<hist, exec, args, parsers, app>>

NextDebug ==
  \/ BurstConnect
  \/ DebugReport
  \/ Tick
  \/ FireLogged
  \/ ActionCompleteLogged
  \/ GetDetectedChanges
  \/ TestParse

SpecDebug == InitDebug /\ [][NextDebug]_vars

(* ------------------------------------------------------------------ *)
(* The ParserRegistry with further parsers registered                 *)
(* ------------------------------------------------------------------ *)
\* the ControlConfigParser, which supports the PXN CB1 only
ControlConfigParserEntry ==
  [name |-> "ControlConfigParser", every |-> FALSE, vendorId |-> PxnVendorId,
   productId |-> PxnProductId]

\* a parser written for another device
OtherVendorId == 1

OtherProductId == 2

CustomParserEntry ==
  [name |-> "CustomParser", every |-> FALSE, vendorId |-> OtherVendorId,
   productId |-> OtherProductId]

CustomParsers == {ControlConfigParserEntry, CustomParserEntry}

\* the HIDDevice descriptions asked for
Devices ==
  [vendorId : {0, OtherVendorId, PxnVendorId},
   productId : {0, OtherProductId, PxnProductId}]

\* HIDMonitor's choice: getParserForDevice(...) || getAllParsers()[0]
MonitorParser(ps, dev) ==
  IF getParserForDevice(ps, dev) # "null" THEN getParserForDevice(ps, dev)
  ELSE ps[1].name

InitRegistry ==
  /\ InitManager({DefaultActions}, "ControlConfigParser")
  /\ args \in Devices
  /\ result = [done |-> FALSE, parser |-> "null", monitor |-> "null"]

\* register(parser)
Register ==
  \E p \in CustomParsers :
    /\ Len(parsers) < Len(DefaultParsers) + MaxRegistered
    /\ parsers' = Append(parsers, p)
    /\ UNCHANGED <<prog, hist, exec, args, result, app>>

\* getParserForDevice(device), alone and as HIDMonitor's constructor calls it
GetParserForDevice ==
  /\ result' = [done |-> TRUE,
                parser |-> getParserForDevice(parsers, args),
                monitor |-> MonitorParser(parsers, args)]
  /\ UNCHANGED <<prog, hist, exec, args, parsers, app>>

NextRegistry ==
  \/ Register
  \/ GetParserForDevice

SpecRegistry == InitRegistry /\ [][NextRegistry]_vars

(* ------------------------------------------------------------------ *)
(* The manager under fair timers                                      *)
(* ------------------------------------------------------------------ *)
InitLive == InitDispatch

LiveReport ==
  \E data \in DispatchReports :
    /\ reportCount < MaxLiveReports
    /\ Deliver(data)

NextLive ==
  \/ BurstConnect
  \/ Disconnect
  \/ LiveReport
  \/ Tick
  \/ Fire
  \/ ActionComplete

\* The runtime lets time pass and runs the callback of a due timeout. Nothing
\* makes a subprocess exit: exec is called without a timeout.
SpecLive == InitLive /\ [][NextLive]_vars /\ WF_vars(Tick) /\ WF_vars(Fire)

(* ------------------------------------------------------------------ *)
(* testParse beside parse                                             *)
(* ------------------------------------------------------------------ *)
\* the shipped catalog, one whose only entry has an empty signature, and one
\* with a single knob
AgreeCatalogs ==
  {Catalog, BuildCatalog(<< <<"knobs", <<>>>> >>),
   BuildCatalog(<< <<"knobs", <<T1>>>> >>)}

InitAgree ==
  /\ InitManager({DefaultActions}, "ControlConfigParser")
  /\ args \in [catalog : AgreeCatalogs, baseline : TestReports, data : TestReports]
  /\ result = [done |-> FALSE,
               test |-> [null |-> TRUE, states |-> <<>>],
               parse |-> [resolved |-> FALSE, states |-> AllFalse]]

\* testParse(baseline, data), and parse(data) on a parser of the same catalog
\* whose previousState is baseline
TestAndParse ==
  /\ ~result.done
  /\ result' = [done |-> TRUE,
                test |-> testParseOn(args.catalog, args.baseline, args.data),
                parse |-> parseOn(args.catalog, args.baseline, args.data)]
  /\ UNCHANGED <<prog, hist, exec, args, parsers, app>>

NextAgree == TestAndParse

SpecAgree == InitAgree /\ [][NextAgree]_vars

(* ------------------------------------------------------------------ *)
(* ButtonParser.parse applied to arbitrary reports                    *)
(* ------------------------------------------------------------------ *)
\* byte values: no bit, the lowest, the highest, two bits, all bits
ButtonBytes == {0, 1, 65, 128, 255}

InitButtons ==
  /\ InitManager({DefaultActions}, "ButtonParser")
  /\ args \in SeqsUpTo(ButtonBytes, MaxLen)
  /\ result = [done |-> FALSE, value |-> <<>>]

ParseButtons ==
  /\ ~result.done
  /\ result' = [done |-> TRUE, value |-> ButtonParse(args)]
  /\ UNCHANGED <<prog, hist, exec, args, parsers, app>>

NextButtons == ParseButtons

SpecButtons == InitButtons /\ [][NextButtons]_vars

(* ------------------------------------------------------------------ *)
(* The HIDMonitor and the calls of connect()                          *)
(* ------------------------------------------------------------------ *)
PxnDevice == [vendorId |-> PxnVendorId, productId |-> PxnProductId]

OtherDevice == [vendorId |-> OtherVendorId, productId |-> OtherProductId]

\* What the system offers a connect() call: whether HID.devices() throws, the
\* devices it lists, and whether new HID.HID(path) throws
Systems ==
  [enumerate : {"ok", "throws"},
   devices : {<<>>, <<OtherDevice>>, <<OtherDevice, PxnDevice>>},
   open : {"ok", "throws"}]

\* enumerateDevices(): the empty list when HID.devices() throws
enumerateDevices(sys) ==
  IF sys.enumerate = "throws" THEN <<>> ELSE sys.devices

\* devices.find(d => d.vendorId === vendorId && d.productId === productId):
\* the index of the first match, 0 for undefined
targetDevice(devices) ==
  IF \E k \in 1..Len(devices) : devices[k] = PxnDevice
    THEN CHOOSE k \in 1..Len(devices) :
           /\ devices[k] = PxnDevice
           /\ \A j \in 1..(k - 1) : devices[j] # PxnDevice
    ELSE 0

\* the value connect() returns
Connects(sys) ==
  /\ targetDevice(enumerateDevices(sys)) # 0
  /\ sys.open = "ok"

\* connect()
connect(sys) ==
  /\ IF Connects(sys) THEN ConnectOk ELSE ConnectFail
  /\ connected' = IF Connects(sys) THEN "true" ELSE "false"

\* start() calling connect() although the monitor is running
startAgain(sys) ==
  /\ connect(sys)
  /\ IF Connects(sys)
       THEN isRunning' = TRUE /\ hooks' = TRUE /\ exited' = exited
       ELSE exited' = TRUE /\ UNCHANGED <<isRunning, hooks>>

\* HIDMonitor.start(): the continuation after the awaited connect() runs
\* before any other callback of the process
start(sys) ==
  IF isRunning THEN UNCHANGED <<prog, app>>
  ELSE /\ connect(sys)
       /\ IF Connects(sys)
            THEN isRunning' = TRUE /\ hooks' = TRUE /\ exited' = exited
            ELSE exited' = TRUE /\ UNCHANGED <<isRunning, hooks>>

\* HIDMonitor.stop()
stop ==
  IF ~isRunning THEN UNCHANGED <<prog, isRunning>>
  ELSE disconnect /\ isRunning' = FALSE

InitMonitor == InitDispatch

Start ==
  \E sys \in Systems :
    /\ ~exited
    /\ handles < MaxOpens
    /\ start(sys)
    /\ UNCHANGED <<hist, exec, args, result, parsers>>

Stop ==
  /\ ~exited
  /\ stop
  /\ discAt' = IF isRunning /\ Pending # {} THEN reportCount ELSE discAt
  /\ UNCHANGED <<reportCount, last6, fireLog, burstHits, burstLen, edgeLog,
                 dispatchLog>>
  /\ UNCHANGED <<exec, args, result, parsers, hooks, exited, connected>>

\* the shutdown listener of SIGINT and SIGTERM: stop(), then process.exit(0)
Shutdown ==
  /\ ~exited
  /\ hooks
  /\ stop
  /\ exited' = TRUE
  /\ discAt' = IF isRunning /\ Pending # {} THEN reportCount ELSE discAt
  /\ UNCHANGED <<reportCount, last6, fireLog, burstHits, burstLen, edgeLog,
                 dispatchLog>>
  /\ UNCHANGED <<exec, args, result, parsers, hooks, connected>>

\* connect() called on the manager itself
ManagerConnect ==
  \E sys \in Systems :
    /\ ~exited
    /\ handles < MaxOpens
    /\ connect(sys)
    /\ UNCHANGED <<hist, exec, args, result, parsers, isRunning, hooks, exited>>

ManagerDisconnect == ~exited /\ Disconnect

MonitorError == ~exited /\ TransportError

MonitorReport ==
  \E data \in DispatchReports :
    /\ ~exited
    /\ reportCount < MaxMonitorReports
    /\ Deliver(data)

MonitorTick == ~exited /\ Tick

MonitorFire == ~exited /\ Fire

MonitorActionComplete == ~exited /\ ActionComplete

NextMonitor ==
  \/ Start
  \/ Stop
  \/ Shutdown
  \/ ManagerConnect
  \/ ManagerDisconnect
  \/ MonitorError
  \/ MonitorReport
  \/ MonitorTick
  \/ MonitorFire
  \/ MonitorActionComplete

SpecMonitor == InitMonitor /\ [][NextMonitor]_vars

(* ------------------------------------------------------------------ *)
(* Properties                                                         *)
(* ------------------------------------------------------------------ *)
\* number of executeAction calls made for slot b on behalf of the event of report seq
DispCount(seq, b) ==
  Cardinality({k \in 1..Len(dispatchLog) : dispatchLog[k] = <<seq, b>>})

\* the call for the event of report seq has run its loop up to slot b
Reached(seq, b) == \A c \in calls : c.seq = seq => b <= c.i

CallOpen(seq) == \E c \in calls : c.seq = seq

FiredSeqs == {fireLog[k].event.seq : k \in 1..Len(fireLog)}

\* C1, as stated: once the last report, one that set a slot, has been processed
\* and nothing is pending or running (no disconnect having cancelled a
\* notification), every slot has been dispatched exactly as many times as it
\* went false->true between consecutive reports.
OrigC1 ==
  (timers = {} /\ calls = {} /\ discAt = 0 /\ TrueSlots(parsedEvent.states) # {}) =>
    \A b \in Slots :
      Cardinality({k \in 1..Len(dispatchLog) : dispatchLog[k][2] = b})
        = Cardinality({e \in edgeLog : e[2] = b})

\* C1, amended: for every event processButtonStates was called with, the action
\* of a slot is dispatched exactly once if the slot is true in the event and
\* false in lastButtonStates as read when the call started, and not at all if
\* the slot is true in both or false in the event.
EdgeDispatchedOnce ==
  \A k \in 1..Len(fireLog) :
    \A b \in Slots :
      DispCount(fireLog[k].event.seq, b) =
        IF /\ At(fireLog[k].event.states, b)
           /\ ~At(fireLog[k].prev, b)
           /\ b \in DOMAIN config
           /\ Reached(fireLog[k].event.seq, b)
          THEN 1 ELSE 0

\* an event fired with a slot newly pressed, a later one with the slot still held
WitnessC1 ==
  \E j, k \in 1..Len(fireLog) :
    \E b \in Slots :
      /\ j < k
      /\ At(fireLog[j].event.states, b) /\ ~At(fireLog[j].prev, b)
      /\ DispCount(fireLog[j].event.seq, b) = 1
      /\ At(fireLog[k].event.states, b) /\ At(fireLog[k].prev, b)
      /\ DispCount(fireLog[k].event.seq, b) = 0

\* C2, as stated: when a burst held an earlier report triggering slot b and its
\* last report triggers b again, the call made for the burst is made with the
\* event of the last report and dispatches the action of b exactly once.
OrigC2 ==
  \A k \in 1..Len(fireLog) :
    \A b \in fireLog[k].hits :
      (At(fireLog[k].event.states, b) /\ ~CallOpen(fireLog[k].event.seq)) =>
        /\ fireLog[k].event.seq = fireLog[k].latest
        /\ DispCount(fireLog[k].event.seq, b) = 1

\* C3: processButtonStates is called only with the event of the last report
\* delivered so far, at most once per report and in arrival order; and when no
\* timeout is left the last report has been processed, unless disconnect()
\* cancelled it.
BurstOrder ==
  /\ \A k \in 1..Len(fireLog) : fireLog[k].event.seq = fireLog[k].latest
  /\ \A j, k \in 1..Len(fireLog) :
       j < k => fireLog[j].event.seq < fireLog[k].event.seq
  /\ (timers = {} /\ reportCount > 0) =>
       (reportCount \in FiredSeqs \/ discAt = reportCount)

\* two bursts were processed, the second one of several reports
WitnessC3 ==
  /\ Len(fireLog) >= 2
  /\ fireLog[2].len = 2
  /\ fireLog[2].event.seq > fireLog[1].event.seq + 1

\* C4: at most one timeout is pending, and it is the one debounceTimer names.
AtMostOnePending ==
  /\ Cardinality(timers) <= 1
  /\ timers = Pending

\* a report has replaced the notification that was pending when it arrived
WitnessC4 == burstLen = 2 /\ timers # {}

\* C5, as stated: when a 6-byte report is handled, lastButtonStates holds the
\* button states of the 6-byte report handled just before it.
OrigC5 ==
  [][(/\ reportCount' = reportCount + 1
      /\ Len(parsedEvent.rawData) = ReportLen
      /\ Len(parsedEvent'.rawData) = ReportLen) =>
       TrueSlots(lastButtonStates) = TrueSlots(parsedEvent.states)]_vars

\* C6: the stored snapshot has 6 bytes and is the most recent 6-byte report (the
\* zero baseline before the first), and the event of every report is computed
\* against the 6-byte report that preceded it.
SnapshotIsLastReport ==
  /\ [](Len(previousState) = ReportLen /\ previousState = last6)
  /\ [][reportCount' = reportCount + 1 =>
          parsedEvent'.states = ParseStates(last6, parsedEvent'.rawData)]_vars

\* a 6-byte report that matched nothing was stored after one that matched
WitnessC6 ==
  /\ reportCount >= 3
  /\ previousState = KnobUp
  /\ TrueSlots(parsedEvent.states) = {}
  /\ \E k \in 1..Len(fireLog) : TrueSlots(fireLog[k].event.states) # {}

\* C7, as stated: a report of another length than 6 leaves the snapshot, the
\* button states, a pending notification and the dispatches as they were.
OrigC7 ==
  [][(reportCount' = reportCount + 1 /\ Len(parsedEvent'.rawData) # ReportLen) =>
       /\ previousState' = previousState
       /\ lastButtonStates' = lastButtonStates
       /\ dispatchLog' = dispatchLog
       /\ (Pending # {} => timers' = timers)]_vars

\* C8: disconnect() leaves no handle and no timeout, and leaves the suspended
\* calls as they are; no call is ever made for a report whose notification a
\* disconnect() found pending.
DisconnectCancels ==
  /\ [][Disconnect =>
          (device' = "null" /\ timers' = {} /\ calls' = calls
             /\ dispatchLog' = dispatchLog)]_vars
  /\ [](\A k \in 1..Len(fireLog) : ~fireLog[k].stale)

\* disconnect() cancelled the notification of the last report while a dispatch
\* was in flight
WitnessC8 ==
  /\ discAt > 0
  /\ discAt = reportCount
  /\ discAt \notin FiredSeqs
  /\ device = "null"
  /\ timers = {}
  /\ calls # {}

\* C9, as stated: when connect() succeeds on a manager that holds no device, the
\* snapshot is the zero baseline and no button state is set.
OrigC9 ==
  [][(device = "null" /\ device' = "open") =>
       (previousState' = ZeroState /\ TrueSlots(lastButtonStates') = {})]_vars

\* C10: an 'error' or 'close' event leaves the manager not connected, and a
\* manager that is not connected becomes connected only by connect().
NoAutoReconnect ==
  [][/\ (TransportError \/ TransportClose) => ~(isConnected' /\ device' # "null")
     /\ (~IsDeviceConnected /\ isConnected' /\ device' # "null") => ConnectOk]_vars

\* the handle is still held after an 'error' or 'close' event, and the manager
\* is not connected while reports keep arriving
WitnessC10 ==
  /\ device = "open"
  /\ ~isConnected
  /\ handles > 0
  /\ timers # {}

\* the slots of a two-byte report read by the ButtonParser
WideSlots == 0..(2 * NumSlots - 1)

\* the outcomes of a command that count as a failure
Failed == {"nonzero", "spawn"}

\* the runner executions made for slot b on behalf of the event of report seq
ExecsFor(seq, b) == SelectSeq(execLog, LAMBDA e : e.seq = seq /\ e.slot = b)

\* C11: whatever the outcome of the commands, every event processButtonStates is
\* called with has, once its call is over, each newly pressed mapped slot
\* dispatched exactly once; a call that ends stores the states of its event in
\* lastButtonStates; and once no timeout is left the last report has been
\* processed.
FailureIsolated ==
  /\ [](\A k \in 1..Len(fireLog) :
          ~CallOpen(fireLog[k].event.seq) =>
            \A b \in WideSlots :
              DispCount(fireLog[k].event.seq, b) =
                IF /\ At(fireLog[k].event.states, b)
                   /\ ~At(fireLog[k].prev, b)
                   /\ b \in DOMAIN config
                  THEN 1 ELSE 0)
  /\ [][\A c \in calls :
          (\A d \in calls' : d.seq # c.seq) => lastButtonStates' = c.states]_vars
  /\ []((timers = {} /\ reportCount > 0) => reportCount \in FiredSeqs)

\* the command of button 0 failed, button 1 of the same event was dispatched
\* all the same, and the next event was compared with the states of that event
WitnessC11 ==
  \E j, k \in 1..Len(fireLog) :
    /\ j < k
    /\ \E n \in 1..Len(execLog) :
         /\ execLog[n].seq = fireLog[j].event.seq
         /\ execLog[n].slot = 0
         /\ execLog[n].outcome \in Failed
    /\ DispCount(fireLog[j].event.seq, 1) = 1
    /\ ~CallOpen(fireLog[j].event.seq)
    /\ fireLog[k].prev = fireLog[j].event.states
    /\ TrueSlots(fireLog[j].event.states) = {0, 1}

\* the pieces joined again with `|` between them
RECURSIVE Join(_)
Join(pieces) ==
  IF Len(pieces) = 0 THEN <<>>
  ELSE IF Len(pieces) = 1 THEN pieces[1]
  ELSE pieces[1] \o <<"|">> \o Join(Tail(pieces))

\* C12: when a sub-action of a macro has failed and the call is over, every later
\* sub-action of the macro has been executed, and nothing was raised.
MacroFailureIsolated ==
  \A n \in 1..Len(execLog) :
    (/\ execLog[n].macro
     /\ execLog[n].outcome \in Failed
     /\ ~CallOpen(execLog[n].seq)) =>
      /\ ~raised
      /\ \A j \in (execLog[n].k + 1)..Len(Split(Substring(config[execLog[n].slot], 6), "|")) :
           \E m \in (n + 1)..Len(execLog) :
             /\ execLog[m].seq = execLog[n].seq
             /\ execLog[m].slot = execLog[n].slot
             /\ execLog[m].k = j

\* a command of a macro failed and the sub-action after it was executed
WitnessC12 ==
  \E n, m \in 1..Len(execLog) :
    /\ n < m
    /\ execLog[n].macro
    /\ execLog[n].outcome \in Failed
    /\ execLog[m].seq = execLog[n].seq
    /\ execLog[m].slot = execLog[n].slot
    /\ execLog[m].k = execLog[n].k + 1
    /\ ~CallOpen(execLog[n].seq)

\* C13: the executions made for a macro are, in order, those of its sub-actions
\* 1, 2, ..: execution j is given the j-th of the strings that, joined with `|`,
\* make up the remainder after the prefix; only the last execution made so far
\* can still be running; and once the call is over there is one per sub-action.
MacroOrder ==
  \A f \in 1..Len(fireLog) :
    \A b \in Slots :
      (/\ b \in DOMAIN config
       /\ StartsWith(config[b], MacroPrefix)
       /\ DispCount(fireLog[f].event.seq, b) = 1) =>
        LET es == ExecsFor(fireLog[f].event.seq, b)
            given == [j \in 1..Len(es) |-> es[j].action]
            remainder == SubSeq(config[b], 7, Len(config[b]))
        IN /\ \A j \in 1..Len(es) :
                /\ es[j].k = j
                /\ ~Includes(es[j].action, "|")
                /\ es[j].outcome = "running" => j = Len(es)
           /\ IF \A c \in calls : c.seq = fireLog[f].event.seq => c.i # b
                THEN /\ Join(given) = remainder
                     /\ Len(given) =
                          Cardinality({i \in 1..Len(remainder) : remainder[i] = "|"}) + 1
                ELSE /\ Len(Join(given)) <= Len(remainder)
                     /\ Join(given) = SubSeq(remainder, 1, Len(Join(given)))

\* the macro log|command|log has run its three sub-actions, the command second
WitnessC13 ==
  /\ config[0] = MacroThree
  /\ calls = {}
  /\ Len(ExecsFor(1, 0)) = 3
  /\ ExecsFor(1, 0)[1].runner = "LogActionRunner"
  /\ ExecsFor(1, 0)[2].runner = "ShellActionRunner"
  /\ ExecsFor(1, 0)[2].action = ShellAction
  /\ ExecsFor(1, 0)[3].runner = "LogActionRunner"

\* C14, as stated: a sub-action of a macro is executed by the runner that
\* ActionRegistry.findRunnerForAction chooses for the same string.
OrigC14 ==
  \A n \in 1..Len(execLog) :
    execLog[n].macro => execLog[n].runner = RegistryRunner(execLog[n].action)

\* the characters that make a string a command
CommandChars == {" ", "/", "\\"}

\* C15: an action that was dispatched has been routed to exactly one runner: a
\* string beginning with `macro:` to the macro runner (its executions are those
\* of sub-actions), whatever else it contains; any other string holding a space,
\* `/` or `\` to the shell runner, which is given the whole string; every other
\* string to the log runner; and no dispatch found no runner.
RoutingTotal ==
  /\ ~raised
  /\ \A f \in 1..Len(fireLog) :
       \A b \in Slots :
         DispCount(fireLog[f].event.seq, b) = 1 =>
           LET es == ExecsFor(fireLog[f].event.seq, b)
               a == config[b]
           IN /\ Len(es) >= 1
              /\ IF Len(a) >= 6 /\ SubSeq(a, 1, 6) = <<"m", "a", "c", "r", "o", ":">>
                   THEN \A j \in 1..Len(es) : es[j].macro
                 ELSE IF \E i \in 1..Len(a) : a[i] \in CommandChars
                   THEN /\ Len(es) = 1
                        /\ es[1].runner = "ShellActionRunner"
                        /\ es[1].action = a
                        /\ ~es[1].macro
                 ELSE /\ Len(es) = 1
                      /\ es[1].runner = "LogActionRunner"
                      /\ es[1].action = a
                      /\ ~es[1].macro

\* a string that begins with `macro:` and holds a command character was run as
\* a macro
WitnessC15 ==
  /\ StartsWith(config[0], MacroPrefix)
  /\ \E i \in 1..Len(config[0]) : config[0][i] \in CommandChars
  /\ Len(ExecsFor(1, 0)) >= 1
  /\ ExecsFor(1, 0)[1].macro
  /\ calls = {}

\* C16: no exception leaves executeAction, and every dispatched action string
\* has a runner.
NeverRaises ==
  /\ ~raised
  /\ \A n \in 1..Len(dispatchLog) :
       RegistryRunner(config[dispatchLog[n][2]]) \in
         {"LogActionRunner", "ShellActionRunner", "MacroActionRunner"}
  /\ \A n \in 1..Len(execLog) :
       execLog[n].runner \in {"LogActionRunner", "ShellActionRunner"}

\* a command that could not be started and a macro whose command exited
\* non-zero: the call is over
WitnessC16 ==
  /\ calls = {}
  /\ \E n \in 1..Len(execLog) :
       \/ ~execLog[n].macro /\ execLog[n].outcome = "spawn"
       \/ execLog[n].macro /\ execLog[n].outcome = "nonzero" /\ config[0] = MacroThree

\* C17: no action is ever dispatched or executed for a slot without
\* ActionMapping, nothing is raised, and an event whose call ends at once has
\* its states, those of unmapped slots included, stored in lastButtonStates.
UnmappedIsNoOp ==
  /\ [](/\ ~raised
        /\ \A n \in 1..Len(dispatchLog) : dispatchLog[n][2] \in DOMAIN config
        /\ \A n \in 1..Len(execLog) : execLog[n].slot \in DOMAIN config)
  /\ [][(/\ Len(fireLog') = Len(fireLog) + 1
         /\ \A c \in calls' : c.seq # fireLog'[Len(fireLog')].event.seq) =>
          lastButtonStates' = fireLog'[Len(fireLog')].event.states]_vars
  /\ [](\A f \in 1..Len(fireLog) :
          \A b \in WideSlots \ DOMAIN config :
            (At(fireLog[f].event.states, b) /\ At(fireLog[f].prev, b)) =>
              DispCount(fireLog[f].event.seq, b) = 0)

\* slot 8, which has no ActionMapping, went from false to true in one event and
\* was found set by the next one; nothing was dispatched for it
WitnessC17 ==
  \E j, k \in 1..Len(fireLog) :
    /\ j < k
    /\ At(fireLog[j].event.states, 8) /\ ~At(fireLog[j].prev, 8)
    /\ At(fireLog[k].event.states, 8) /\ At(fireLog[k].prev, 8)
    /\ \A n \in 1..Len(dispatchLog) : dispatchLog[n][2] # 8
    /\ At(lastButtonStates, 8)

\* C18: executeAction is called at most once for a slot of an event, exactly
\* once when the slot was newly pressed and its call has passed it, and no step
\* of an action is executed twice for one dispatch, whatever its outcome.
NoRetry ==
  /\ \A f \in 1..Len(fireLog) :
       \A b \in WideSlots :
         /\ DispCount(fireLog[f].event.seq, b) <= 1
         /\ (/\ At(fireLog[f].event.states, b) /\ ~At(fireLog[f].prev, b)
             /\ b \in DOMAIN config
             /\ Reached(fireLog[f].event.seq, b)) =>
              DispCount(fireLog[f].event.seq, b) = 1
  /\ \A n, m \in 1..Len(execLog) :
       (/\ n < m
        /\ execLog[n].seq = execLog[m].seq
        /\ execLog[n].slot = execLog[m].slot) => execLog[n].k # execLog[m].k
  /\ \A n \in 1..Len(execLog) :
       Len(ExecsFor(execLog[n].seq, execLog[n].slot))
         <= Len(Steps(config[execLog[n].slot]))

\* the command of button 0 and the command of the macro of button 1 both failed,
\* and the event ended with one execution of the former and three of the latter
WitnessC18 ==
  \E f \in 1..Len(fireLog) :
    LET seq == fireLog[f].event.seq
    IN /\ ~CallOpen(seq)
       /\ Len(ExecsFor(seq, 0)) = 1
       /\ ExecsFor(seq, 0)[1].outcome \in Failed
       /\ Len(ExecsFor(seq, 1)) = 3
       /\ ExecsFor(seq, 1)[2].outcome \in Failed

\* C19: detectChanges(previous, current) holds one delta for exactly each
\* position below the shorter length at which the two differ, with the byte of
\* previous as old and the byte of current as new value, positions ascending;
\* it is empty when both are the same report.
DetectExact ==
  result.done =>
    LET previous == args[1]
        current == args[2]
        d == result.value
        n == IF Len(previous) < Len(current) THEN Len(previous) ELSE Len(current)
    IN /\ \A k \in 1..Len(d) :
            /\ d[k][1] \in 1..n
            /\ previous[d[k][1]] # current[d[k][1]]
            /\ d[k][2] = previous[d[k][1]]
            /\ d[k][3] = current[d[k][1]]
       /\ \A i \in 1..n :
            previous[i] # current[i] => \E k \in 1..Len(d) : d[k][1] = i
       /\ \A j, k \in 1..Len(d) : j < k => d[j][1] < d[k][1]
       /\ previous = current => d = <<>>

\* two reports of different lengths that differ at two positions
WitnessC19 ==
  /\ result.done
  /\ Len(args[1]) # Len(args[2])
  /\ Len(result.value) = 2
  /\ result.value[1][2] # result.value[1][3]

\* how many times the token t occurs in the list l
Count(t, l) == Cardinality({k \in 1..Len(l) : l[k] = t})

\* C20: changesMatch(config, actual) holds exactly when every token occurs as
\* many times in the one list as in the other.
MatchIsMultisetEquality ==
  result.done =>
    (result.value <=> \A t \in Tokens : Count(t, args[1]) = Count(t, args[2]))

\* a list with a repeated token matched by a different arrangement of it
WitnessC20 ==
  /\ result.done
  /\ result.value
  /\ args[1] # args[2]
  /\ Len(args[1]) = 3
  /\ \E t \in Tokens : Count(t, args[1]) = 2

\* the two lists hold the same tokens the same number of times
SameTokens(a, b) == \A t \in {T1, T2} : Count(t, a) = Count(t, b)

\* the place of a kind in the search
Rank(kind) ==
  IF kind = "buttons" THEN 1 ELSE IF kind = "knobs" THEN 2
  ELSE IF kind = "toggles" THEN 3 ELSE 4

\* C21: two delta lists that are permutations of each other resolve to the same
\* entry or both to none; an entry is found whenever some entry of the catalog is
\* a permutation of the delta list, and the entry found is one.
OrderIndependent ==
  result.stage = "resolved" =>
    /\ SameTokens(args.changes, args.other) => result.entry = result.other
    /\ result.entry # NoEntry => SameTokens(result.entry.changes, args.changes)
    /\ result.entry = NoEntry =>
         \A kind \in Kinds :
           \A k \in 1..Len(args.file.catalog[kind]) :
             ~SameTokens(args.file.catalog[kind][k].changes, args.changes)

\* a two-token list and its reversal resolved to one entry, whose own list is in
\* the other order than the first of them
WitnessC21 ==
  /\ result.stage = "resolved"
  /\ Len(args.changes) = 2
  /\ args.other # args.changes
  /\ result.entry # NoEntry
  /\ result.entry = result.other
  /\ result.entry.changes # args.changes

\* C22, as stated: an empty delta list resolves to no entry and sets no slot.
OrigC22 ==
  (result.stage = "resolved" /\ args.changes = <<>>) =>
    (result.entry = NoEntry /\ result.states = AllFalse)

\* C23, as stated: a parser is never constructed on a catalog in which two
\* entries have equal signatures.
OrigC23 ==
  result.stage \in {"loaded", "resolved"} =>
    \A j, k \in 1..Len(SearchOrder(args.file.catalog)) :
      j # k => ~SameTokens(SearchOrder(args.file.catalog)[j].changes,
                           SearchOrder(args.file.catalog)[k].changes)

\* C24: the entry found is the first one of the catalog, kinds taken in the order
\* buttons, knobs, toggles, joystick and entries of a kind in their own order,
\* whose signature holds the tokens of the delta list.
FirstInFixedOrder ==
  (result.stage = "resolved" /\ result.entry # NoEntry) =>
    /\ result.entry.kind \in Kinds
    /\ result.entry.pos \in 1..Len(args.file.catalog[result.entry.kind])
    /\ args.file.catalog[result.entry.kind][result.entry.pos].changes
         = result.entry.changes
    /\ \A kind \in Kinds :
         \A k \in 1..Len(args.file.catalog[kind]) :
           (\/ Rank(kind) < Rank(result.entry.kind)
            \/ kind = result.entry.kind /\ k < result.entry.pos) =>
             ~SameTokens(args.file.catalog[kind][k].changes, args.changes)

\* a knob entry and a toggle entry carry the signature of the delta list, and
\* the knob entry was returned
WitnessC24 ==
  /\ result.stage = "resolved"
  /\ Len(args.file.catalog.knobs) = 1
  /\ Len(args.file.catalog.toggles) = 1
  /\ SameTokens(args.file.catalog.knobs[1].changes, args.changes)
  /\ SameTokens(args.file.catalog.toggles[1].changes, args.changes)
  /\ Len(args.changes) > 0
  /\ result.entry.kind = "knobs"

ToggleName(field) ==
  CASE field = 0 -> "DOWN"
    [] field = 1 -> "MIDDLE"
    [] field = 2 -> "UP"
    [] OTHER -> "UNKNOWN"

\* C26: for every byte value every toggle decoder reads toggle 1 from bits 4-5
\* of the byte, the field is in 0..3, and a decoder that names the state names
\* 0 DOWN, 1 MIDDLE, 2 UP and 3 UNKNOWN (a decoder that leaves the switch out
\* of its output names nothing).
OrigC26 ==
  result.done =>
    LET field == (args \div 16) % 4
    IN /\ result.script.field = field
       /\ result.accurate.field = field
       /\ result.generic.field = field
       /\ field \in 0..3
       /\ result.script.name = ToggleName(field)
       /\ result.accurate.name \in {"none", ToggleName(field)}

\* the sequence numbers of the events whose processButtonStates call ends in
\* the step: calls open before, or started by the timeout that fires
Ending ==
  {c.seq : c \in calls} \cup
  (IF Len(fireLog') > Len(fireLog) THEN {fireLog'[Len(fireLog')].event.seq} ELSE {})

\* C27: the snapshot and lastButtonStates are written only by report
\* processing. A call of testParse or getDetectedChanges changes neither; the
\* snapshot changes only in the step that handles a report; lastButtonStates
\* changes only to the states of an event at the end of that event's
\* processButtonStates call, so a step in which an action runs and its call
\* stays suspended does not write it.
DeviceStateFrame ==
  [][/\ result' # result =>
          previousState' = previousState /\ lastButtonStates' = lastButtonStates
     /\ previousState' # previousState => reportCount' = reportCount + 1
     /\ execLog' # execLog => previousState' = previousState
     /\ lastButtonStates' # lastButtonStates =>
          \E e \in FiredSeqs' :
            /\ e \in Ending
            /\ \A c \in calls' : c.seq # e
            /\ \E k \in 1..Len(fireLog') :
                 /\ fireLog'[k].event.seq = e
                 /\ lastButtonStates' = fireLog'[k].event.states]_vars

\* both debug methods have been called after a report moved the snapshot and
\* an action of a press was executed
WitnessC27 ==
  /\ result.method = "getDetectedChanges"
  /\ result.changes # <<>>
  /\ previousState = PressA
  /\ execLog # <<>>
  /\ \E k \in 1..Len(execLog) : execLog[k].runner = "ShellActionRunner"

\* C28: with the default registrations getParserForDevice returns the
\* PXNCB1AccurateParser for the PXN CB1 (0x36E6, 0x8001), and a parser
\* registered for one device is the parser returned for that device.
OrigC28 ==
  result.done =>
    /\ (parsers = DefaultParsers /\ args.vendorId = PxnVendorId
          /\ args.productId = PxnProductId)
         => result.parser = "PXNCB1AccurateParser"
    /\ (/\ \E k \in 1..Len(parsers) : parsers[k] = CustomParserEntry
        /\ args.vendorId = OtherVendorId
        /\ args.productId = OtherProductId)
         => result.parser = "CustomParser"

\* C29: a slot that is true in two consecutively fired events is dispatched
\* only for the first of them, whether or not the call of the first is still
\* awaiting its action when the second fires.
OrigC29 ==
  \A k \in 1..(Len(fireLog) - 1) : \A b \in Slots :
    (At(fireLog[k].event.states, b) /\ At(fireLog[k + 1].event.states, b))
      => DispCount(fireLog[k + 1].event.seq, b) = 0

\* C30: once no processButtonStates call is in flight, lastButtonStates holds
\* the states of the event fired last.
OrigC30 ==
  (calls = {} /\ Len(fireLog) > 0)
    => lastButtonStates = fireLog[Len(fireLog)].event.states

\* C31: a report is handled, and an action is dispatched, only while
\* isDeviceConnected() is true: after 'error' or 'close' neither a debounce
\* timer that was pending nor data of the old handle leads to a dispatch.
OrigC31 ==
  [][(reportCount' # reportCount \/ dispatchLog' # dispatchLog)
       => IsDeviceConnected]_vars

\* C32: parse returns 8 slots, at most one of them true, and slot i is true
\* exactly when the delta list matches an entry of the buttons section whose id
\* parses to i, 0 <= i < 8; a delta list that matches no button leaves every
\* slot false.
OrigC32 ==
  result.stage = "resolved" =>
    /\ Len(result.states) = NumSlots
    /\ Cardinality({i \in Slots : result.states[i + 1]}) <= 1
    /\ \A i \in Slots :
         result.states[i + 1] <=>
           \E k \in 1..Len(args.file.catalog.buttons) :
             /\ ParseInt(args.file.catalog.buttons[k].id) = i
             /\ SameTokens(args.file.catalog.buttons[k].changes, args.changes)

\* the timeout scheduled for report n is held by the runtime
Scheduled(n) == \E t \in timers : t.id = n

\* processButtonStates has been called with the event of report n
Fired(n) == n \in FiredSeqs

\* slot b is true in the event of report n and was false in lastButtonStates
\* when processButtonStates was called with that event
NewlyPressed(n, b) ==
  \E k \in 1..Len(fireLog) :
    /\ fireLog[k].event.seq = n
    /\ At(fireLog[k].event.states, b)
    /\ ~At(fireLog[k].prev, b)

\* the timeout of report n fires unless a later report or a disconnect()
\* comes first
EventuallyProcessed ==
  \A n \in 1..MaxLiveReports :
    Scheduled(n) ~> (Fired(n) \/ reportCount > n \/ discAt >= n)

\* every newly pressed mapped slot of every event processed so far has been
\* dispatched
AllDispatched ==
  \A n \in 1..MaxLiveReports : \A b \in Slots :
    (Fired(n) /\ NewlyPressed(n, b)) => DispCount(n, b) >= 1

\* Every newly pressed mapped slot of a processed event is eventually
\* dispatched. An event once processed stays processed and a dispatch once made
\* stays made, so this is: from some point on nothing is left to dispatch.
EventuallyDispatched == <>[]AllDispatched

\* C33, as stated: under fair timer scheduling, a report that is followed
\* neither by another report nor by a disconnect() before its timeout fires has
\* processButtonStates run for its event, and every newly pressed mapped slot
\* of that event is eventually dispatched.
OrigC33 == EventuallyProcessed /\ EventuallyDispatched

\* C33: the same, the dispatch of the slots provided that every subprocess a
\* call awaits exits or fails, so that in the end no call is left suspended.
ProcessedAndDispatched ==
  /\ EventuallyProcessed
  /\ <>[](calls = {}) => EventuallyDispatched

\* an event with two newly pressed slots has had both dispatched
WitnessC33 ==
  \E n \in 1..MaxLiveReports :
    /\ NewlyPressed(n, 0)
    /\ NewlyPressed(n, 1)
    /\ DispCount(n, 0) = 1
    /\ DispCount(n, 1) = 1

\* C34: the slots of one event are dispatched in ascending order; while the
\* action of a slot is running nothing of a higher slot of the same event has
\* been dispatched or started and the call of the event is suspended; and
\* lastButtonStates is written by a call only when every newly pressed mapped
\* slot of its event has been dispatched and none of its actions is running.
SequentialDispatch ==
  /\ [](\A j, k \in 1..Len(dispatchLog) :
          (j < k /\ dispatchLog[j][1] = dispatchLog[k][1])
            => dispatchLog[j][2] < dispatchLog[k][2])
  /\ [](\A n \in 1..Len(execLog) :
          execLog[n].outcome = "running" =>
            /\ CallOpen(execLog[n].seq)
            /\ \A m \in 1..Len(execLog) :
                 execLog[m].seq = execLog[n].seq =>
                   (m <= n /\ execLog[m].slot <= execLog[n].slot)
            /\ \A d \in 1..Len(dispatchLog) :
                 dispatchLog[d][1] = execLog[n].seq
                   => dispatchLog[d][2] <= execLog[n].slot)
  /\ [][lastButtonStates' # lastButtonStates =>
          \E e \in Ending :
            /\ \A c \in calls' : c.seq # e
            /\ \A n \in 1..Len(execLog') :
                 execLog'[n].seq = e => execLog'[n].outcome # "running"
            /\ \A b \in Slots :
                 NewlyPressed(e, b)' => DispCount(e, b)' = 1
            /\ \E k \in 1..Len(fireLog') :
                 /\ fireLog'[k].event.seq = e
                 /\ lastButtonStates' = fireLog'[k].event.states]_vars

\* the command of slot 0 has exited, the macro of slot 1 of the same event has
\* run after it, and the call has stored the states of the event
WitnessC34 ==
  \E k \in 1..Len(fireLog) :
    /\ TrueSlots(fireLog[k].event.states) = {0, 1}
    /\ NewlyPressed(fireLog[k].event.seq, 0)
    /\ NewlyPressed(fireLog[k].event.seq, 1)
    /\ ~CallOpen(fireLog[k].event.seq)
    /\ lastButtonStates = fireLog[k].event.states
    /\ \E n, m \in 1..Len(execLog) :
         /\ n < m
         /\ execLog[n].seq = fireLog[k].event.seq
         /\ execLog[m].seq = fireLog[k].event.seq
         /\ execLog[n].slot = 0
         /\ execLog[n].outcome = "ok"
         /\ execLog[m].slot = 1
         /\ execLog[m].runner = "ShellActionRunner"
         /\ execLog[m].outcome = "ok"

\* C35: a connected manager holds a handle, so that isDeviceConnected() is
\* true exactly when isConnected is, and at most one opened handle delivers
\* reports at any time, also when connect() is called repeatedly.
OrigC35 ==
  /\ isConnected => device # "null"
  /\ IsDeviceConnected <=> isConnected
  /\ handles <= 1

\* no listed device has the configured vendor and product id
NoMatch(sys) == \A k \in 1..Len(sys.devices) : sys.devices[k] # PxnDevice

\* C36: connect() returns false, installs nothing and leaves a manager that
\* was not connected not connected when no device matches, the enumeration
\* fails or opening throws; it returns true only with a handle stored,
\* isConnected set and the handlers installed on that handle.
ConnectContract ==
  [][\A sys \in Systems :
       connect(sys) =>
         /\ (NoMatch(sys) \/ sys.enumerate = "throws" \/ sys.open = "throws")
              => /\ connected' = "false"
                 /\ UNCHANGED <<device, isConnected, handles, debounceTimer,
                                timers>>
                 /\ ~IsDeviceConnected => ~IsDeviceConnected'
                 /\ raised' = raised
         /\ connected' = "true"
              => /\ device' = "open"
                 /\ isConnected'
                 /\ handles' = handles + 1
                 /\ ~NoMatch(sys)
                 /\ sys.enumerate = "ok"
                 /\ sys.open = "ok"]_vars

\* a connect() on a manager that was never connected has returned false
WitnessC36 ==
  /\ connected = "false"
  /\ ~IsDeviceConnected
  /\ handles = 0
  /\ ~hooks
  /\ ~exited

\* C37: isRunning becomes true only when connect() has returned true; start()
\* on a running monitor does not connect again; stop() on a monitor that is
\* not running changes nothing; stop() on a running monitor leaves the manager
\* disconnected, no debounce notification pending and isRunning false.
MonitorLifecycle ==
  [][/\ (~isRunning /\ isRunning') => (connected' = "true" /\ IsDeviceConnected')
     /\ (Start /\ isRunning) => UNCHANGED <<prog, app>>
     /\ (Stop /\ ~isRunning) => UNCHANGED <<prog, app>>
     /\ ((Stop \/ Shutdown) /\ isRunning)
          => /\ ~IsDeviceConnected'
             /\ device' = "null"
             /\ debounceTimer' = 0
             /\ timers' = {}
             /\ ~isRunning']_vars

\* stop() has run on a running monitor whose manager had a notification
\* pending, and the process lives on
WitnessC37 ==
  /\ hooks
  /\ ~isRunning
  /\ ~exited
  /\ handles = 0
  /\ discAt >= 1
  /\ reportCount = discAt

\* C38: testParse(baseline, data) agrees with parse(data) on a parser whose
\* stored snapshot is baseline: it returns an event exactly when parse
\* resolves a control, and the event has the buttonStates parse returns.
OrigC38 ==
  result.done =>
    /\ ~result.test.null <=> result.parse.resolved
    /\ ~result.test.null => result.test.states = result.parse.states

RECURSIVE BitsValue(_, _, _)
\* the number whose bit j is set exactly when slot 8 * i + j of states is
BitsValue(states, i, j) ==
  IF j = 8 THEN 0
  ELSE (IF states[8 * i + j + 1] THEN 2 ^ j ELSE 0) + BitsValue(states, i, j + 1)

\* C39: ButtonParser.parse returns 8 * len(data) button states, slot 8 * i + j
\* being true exactly when bit j of byte i is set, bit 0 the least significant;
\* an empty report gives an empty list.
ButtonBits ==
  result.done =>
    /\ Len(result.value) = 8 * Len(args)
    /\ \A i \in 0..(Len(args) - 1) :
         /\ \A j \in 0..7 :
              result.value[8 * i + j + 1] <=> (args[i + 1] % (2 ^ (j + 1))) >= 2 ^ j
         /\ BitsValue(result.value, i, 0) = args[i + 1]
    /\ args = <<>> => result.value = <<>>

\* the report 41 80 has been parsed: slots 0 and 6 of the first byte and the
\* last slot of the second are set
WitnessC39 ==
  /\ result.done
  /\ args = <<65, 128>>
  /\ {n \in 1..Len(result.value) : result.value[n]} = {1, 7, 16}

====
